---- MODULE Spec2Model ----
(***************************************************************************)
(* The calculator of the QR bot (src/qr_bot.py): the classifier            *)
(* looks_like_math, the normalising substitutions, the evaluator           *)
(* _safe_eval_expr with its whitelist walk _eval, and the handler          *)
(* handle_text that ties them together.                                    *)
(*                                                                         *)
(* A string is a sequence of characters, a character a one-character       *)
(* string; the four non-ASCII glyphs the code names are written by their   *)
(* code points.                                                            *)
(***************************************************************************)
EXTENDS Integers, Sequences, FiniteSets, TLC

VARIABLES
    msg,      \* handle_text: update.message.text of the inbound update
    replies,  \* handle_text: what it sent with update.message.reply_text, in order
    logged,   \* handle_text: what was written with logger.error
    calls,    \* handle_text: number of calls of _safe_eval_expr it made
    arg,      \* looks_like_math: its argument
    verdict,  \* looks_like_math: its return value
    raw,      \* normalisation: the string before any substitution
    cur,      \* normalisation: the string so far
    todo,     \* normalisation: the substitutions not yet applied
    node,     \* _safe_eval_expr: the tree ast.parse returned
    outcome,  \* _safe_eval_expr: how the call ended
    pc        \* "call" before the operation under study has run, "return" after

vars == <<msg, replies, logged, calls, arg, verdict, raw, cur, todo, node, outcome, pc>>

None == "None"

----------------------------------------------------------------------------
(* Characters *)

MultiplicationSign == "U+00D7"
DivisionSign == "U+00F7"
EnDash == "U+2013"
MinusSign == "U+2212"

Digits == {"0", "1", "2", "3", "4", "5", "6", "7", "8", "9"}

Whitespace == {" ", "\t", "\n"}

DigitValue(c) ==
    CASE c = "0" -> 0 [] c = "1" -> 1 [] c = "2" -> 2 [] c = "3" -> 3
      [] c = "4" -> 4 [] c = "5" -> 5 [] c = "6" -> 6 [] c = "7" -> 7
      [] c = "8" -> 8 [] c = "9" -> 9

\* The strings over alphabet of length n.
Strings(alphabet, n) == [1..n -> alphabet]

Contains(s, c) == \E i \in 1..Len(s) : s[i] = c

----------------------------------------------------------------------------
(* looks_like_math and its regular expression *)

\* The character class of _MATH_TOKEN_RE: [\s\d\.+\-*/%()xX<U+00D7><U+00F7>,^]
MathTokenClass ==
    Whitespace \cup Digits \cup
    {".", "+", "-", "*", "/", "%", "(", ")", "x", "X",
     MultiplicationSign, DivisionSign, ",", "^"}

\* _MATH_TOKEN_RE.match(text): ^ class+ $, where $ matches at the end of the
\* string and just before a newline that ends it.
MathTokenReMatch(text) ==
    \E k \in 1..Len(text) :
        /\ \A i \in 1..k : text[i] \in MathTokenClass
        /\ \/ k = Len(text)
           \/ k = Len(text) - 1 /\ text[Len(text)] = "\n"

\* The list any(op in text for op in [...]) runs over.
OperatorGlyphs ==
    {"+", "-", "*", MultiplicationSign, "x", "X", "/", DivisionSign, "%", "^"}

\* A classifier that leaves out the test for an operator.
LooksLikeMathNoOperatorTest(text) ==
    IF text = <<>> THEN FALSE
    ELSE IF ~MathTokenReMatch(text) THEN FALSE
    ELSE TRUE

looks_like_math(text) ==
    IF text = <<>> THEN FALSE
    ELSE IF ~MathTokenReMatch(text) THEN FALSE
    ELSE \E op \in OperatorGlyphs : Contains(text, op)

----------------------------------------------------------------------------
(* str.replace and the substitutions *)

\* s.replace(old, new) for a one-character old.
RECURSIVE Replace(_, _, _)
Replace(s, old, new) ==
    IF s = <<>> THEN <<>>
    ELSE (IF Head(s) = old THEN new ELSE <<Head(s)>>) \o Replace(Tail(s), old, new)

\* handle_text: text.replace('^', '**').replace('x', '*').replace('X', '*')
SubCaret == [old |-> "^", new |-> <<"*", "*">>]
\* A substitution of 'x' that leaves the '*' to the evaluator's substitution.
SubLowerXToSign == [old |-> "x", new |-> <<MultiplicationSign>>]
SubLowerX == [old |-> "x", new |-> <<"*">>]
SubUpperX == [old |-> "X", new |-> <<"*">>]
\* _safe_eval_expr: expr.replace(U+00D7, '*').replace(U+00F7, '/')
\*                      .replace(U+2013, '-').replace(U+2212, '-')
SubTimes == [old |-> MultiplicationSign, new |-> <<"*">>]
SubDivide == [old |-> DivisionSign, new |-> <<"/">>]
SubEnDash == [old |-> EnDash, new |-> <<"-">>]
SubMinusSign == [old |-> MinusSign, new |-> <<"-">>]

HandlerSubstitutions == {SubCaret, SubLowerX, SubUpperX}
EvaluatorSubstitutions == {SubTimes, SubDivide, SubEnDash, SubMinusSign}
Substitutions == HandlerSubstitutions \cup EvaluatorSubstitutions

Apply(sub, s) == Replace(s, sub.old, sub.new)

NormalizeCaretAndX(text) == Apply(SubUpperX, Apply(SubLowerX, Apply(SubCaret, text)))

NormalizeUnicode(expr) ==
    Apply(SubMinusSign, Apply(SubEnDash, Apply(SubDivide, Apply(SubTimes, expr))))

\* The string ast.parse is given when handle_text evaluates text.
Normalize(text) == NormalizeUnicode(NormalizeCaretAndX(text))

----------------------------------------------------------------------------
(* Python numbers *)

\* Largest numerator and denominator of a value of the model.  A value past
\* it is left out (see Beyond): the handler's step is not taken on it.
MaxMagnitude == 10000

\* A value is [t, n, d, x, c]:
\*   t  "int", "bool", "float", "complex" or the type of a non-numeric constant
\*   n/d  the number, d > 0, in lowest terms (0/1 for a complex)
\*   x  a float only: TRUE when n/d is exactly the IEEE double the code holds,
\*      FALSE when the double is the nearest one to n/d or a few ulps from it
\*   c  a complex only, of which the model keeps no digits: "zero" for 0j,
\*      "real" for a nonzero one with imaginary part 0, "nonreal" otherwise
Abs(i) == IF i < 0 THEN -i ELSE i

RECURSIVE Gcd(_, _)
Gcd(a, b) == IF b = 0 THEN a ELSE Gcd(b, a % b)

RECURSIVE IsPowerOfTwo(_)
IsPowerOfTwo(d) == d = 1 \/ (d > 1 /\ d % 2 = 0 /\ IsPowerOfTwo(d \div 2))

IntV(i) == [t |-> "int", n |-> i, d |-> 1, x |-> TRUE, c |-> ""]
BoolV(b) == [t |-> "bool", n |-> IF b THEN 1 ELSE 0, d |-> 1, x |-> TRUE, c |-> ""]
FloatV(n, d, x) == [t |-> "float", n |-> n, d |-> d, x |-> x, c |-> ""]
ComplexV(class) == [t |-> "complex", n |-> 0, d |-> 1, x |-> FALSE, c |-> class]
OtherV(type) == [t |-> type, n |-> 0, d |-> 1, x |-> TRUE, c |-> ""]

IsReal(v) == v.t \in {"int", "bool", "float"}
IsIntegral(v) == v.t \in {"int", "bool"}
IsZero(v) == IF v.t = "complex" THEN v.c = "zero" ELSE v.n = 0

\* How an operation ends: a value, an exception, or a value the model does
\* not represent.
Ok(v) == [s |-> "ok", v |-> v]
Raise(e) == [s |-> "raise", e |-> e]
Beyond == [s |-> "beyond"]

InRange(n, d) == Abs(n) <= MaxMagnitude /\ d <= MaxMagnitude

IntResult(i) == IF InRange(i, 1) THEN Ok(IntV(i)) ELSE Beyond

\* The float n/d, n and d already in lowest terms with d > 0.
Lowest(n, d, exact) ==
    IF ~InRange(n, d) THEN Beyond
    ELSE IF ~(exact /\ IsPowerOfTwo(d)) /\ d = 1 THEN Beyond
    ELSE Ok(FloatV(n, d, exact /\ IsPowerOfTwo(d)))

\* n/d over the common divisor g of |n| and d, d > 0
Lower(n, d, g, exact) == Lowest(n \div g, d \div g, exact)

\* The float nearest n/d (d # 0); exact says the operands were exact.  An
\* inexact double whose model value is a whole number may or may not be
\* whole itself: the model does not decide it.
FloatResult(n, d, exact) ==
    IF d < 0 THEN Lower(-n, -d, Gcd(Abs(n), -d), exact)
    ELSE Lower(n, d, Gcd(Abs(n), d), exact)

\* floor(n/d), d > 0
Floor(n, d) == n \div d

Exact(a, b) == a.x /\ b.x

\* The class of a real or complex operand seen as a complex number.
ClassOf(v) ==
    IF v.t = "complex" THEN v.c
    ELSE IF v.n = 0 THEN "zero" ELSE "real"

ComplexAdd(a, b) ==
    LET ca == ClassOf(a)
        cb == ClassOf(b)
    IN  IF ca = "nonreal" /\ cb = "nonreal" THEN Beyond
        ELSE IF ca = "nonreal" \/ cb = "nonreal" THEN Ok(ComplexV("nonreal"))
        ELSE IF ca = "zero" THEN Ok(ComplexV(cb))
        ELSE IF cb = "zero" THEN Ok(ComplexV(ca))
        ELSE Beyond

ComplexMult(a, b) ==
    LET ca == ClassOf(a)
        cb == ClassOf(b)
    IN  IF ca = "zero" \/ cb = "zero" THEN Ok(ComplexV("zero"))
        ELSE IF ca = "nonreal" /\ cb = "nonreal" THEN Beyond
        ELSE IF ca = "nonreal" \/ cb = "nonreal" THEN Ok(ComplexV("nonreal"))
        ELSE Ok(ComplexV("real"))

ComplexDiv(a, b) ==
    LET ca == ClassOf(a)
        cb == ClassOf(b)
    IN  IF cb = "zero" THEN Raise("ZeroDivisionError")
        ELSE IF ca = "zero" THEN Ok(ComplexV("zero"))
        ELSE IF ca = "nonreal" /\ cb = "nonreal" THEN Beyond
        ELSE IF ca = "nonreal" \/ cb = "nonreal" THEN Ok(ComplexV("nonreal"))
        ELSE Ok(ComplexV("real"))

\* left + right
PyAdd(a, b) ==
    IF a.t = "complex" \/ b.t = "complex" THEN ComplexAdd(a, b)
    ELSE IF IsIntegral(a) /\ IsIntegral(b) THEN IntResult(a.n + b.n)
    ELSE FloatResult(a.n * b.d + b.n * a.d, a.d * b.d, Exact(a, b))

\* -operand
PyNeg(a) ==
    IF a.t = "complex" THEN Ok(a)
    ELSE IF IsIntegral(a) THEN Ok(IntV(-a.n))
    ELSE Ok([a EXCEPT !.n = -a.n])

\* +operand
PyPos(a) == IF a.t = "bool" THEN Ok(IntV(a.n)) ELSE Ok(a)

\* left - right
PySub(a, b) ==
    IF a.t = "complex" \/ b.t = "complex" THEN ComplexAdd(a, b)
    ELSE IF IsIntegral(a) /\ IsIntegral(b) THEN IntResult(a.n - b.n)
    ELSE FloatResult(a.n * b.d - b.n * a.d, a.d * b.d, Exact(a, b))

\* left * right
PyMult(a, b) ==
    IF a.t = "complex" \/ b.t = "complex" THEN ComplexMult(a, b)
    ELSE IF IsIntegral(a) /\ IsIntegral(b) THEN IntResult(a.n * b.n)
    ELSE FloatResult(a.n * b.n, a.d * b.d, Exact(a, b) \/ a.n = 0 \/ b.n = 0)

\* left / right: true division, a float also of two ints
PyDiv(a, b) ==
    IF a.t = "complex" \/ b.t = "complex" THEN ComplexDiv(a, b)
    ELSE IF b.n = 0 THEN Raise("ZeroDivisionError")
    ELSE FloatResult(a.n * b.d, a.d * b.n, Exact(a, b) \/ a.n = 0)

\* floor(a / b) for b # 0, as a whole number
FloorQuotient(a, b) ==
    LET n == a.n * b.d
        d == a.d * b.n
    IN  IF d < 0 THEN Floor(-n, -d) ELSE Floor(n, d)

\* Whether a / b is a whole number (b # 0).
WholeQuotient(a, b) == (a.n * b.d) % Abs(a.d * b.n) = 0

\* left // right
PyFloorDiv(a, b) ==
    IF a.t = "complex" \/ b.t = "complex" THEN Raise("TypeError")
    ELSE IF b.n = 0 THEN Raise("ZeroDivisionError")
    ELSE IF IsIntegral(a) /\ IsIntegral(b) THEN IntResult(FloorQuotient(a, b))
    ELSE IF ~Exact(a, b) /\ a.n # 0 /\ WholeQuotient(a, b) THEN Beyond
    ELSE FloatResult(FloorQuotient(a, b), 1, TRUE)

\* left % right: the remainder has the sign of the divisor.  With a/b = N/D
\* and q its floor, a - q*b = (N - q*D) / (a.d * b.d).
PyMod(a, b) ==
    IF a.t = "complex" \/ b.t = "complex" THEN Raise("TypeError")
    ELSE IF b.n = 0 THEN Raise("ZeroDivisionError")
    ELSE IF IsIntegral(a) /\ IsIntegral(b)
         THEN IntResult(a.n - b.n * FloorQuotient(a, b))
    ELSE IF ~Exact(a, b) /\ a.n # 0 /\ WholeQuotient(a, b) THEN Beyond
    ELSE FloatResult(a.n * b.d - FloorQuotient(a, b) * (a.d * b.n), a.d * b.d,
                     Exact(a, b) \/ a.n = 0)

\* acc * n ** k for k >= 0, or MaxMagnitude + 1 when it is past MaxMagnitude.
RECURSIVE PowFrom(_, _, _)
PowFrom(n, k, acc) ==
    IF k = 0 THEN acc
    ELSE IF n = 0 THEN 0
    ELSE IF n = 1 THEN acc
    ELSE IF n = -1 THEN (IF k % 2 = 0 THEN acc ELSE -acc)
    ELSE IF Abs(acc * n) > MaxMagnitude THEN MaxMagnitude + 1
    ELSE PowFrom(n, k - 1, acc * n)

NatPow(n, k) == PowFrom(n, k, 1)

\* The whole square root of n >= 0, or -1 when n is no square.
RECURSIVE SqrtFrom(_, _)
SqrtFrom(n, r) ==
    IF r * r = n THEN r
    ELSE IF r * r > n THEN -1
    ELSE SqrtFrom(n, r + 1)

\* pn/pd, or pd/pn for k < 0, as a float or an int
PowResult(pn, pd, k, exact, asInt) ==
    IF Abs(pn) > MaxMagnitude \/ pd > MaxMagnitude THEN Beyond
    ELSE IF asInt THEN IntResult(pn)
    ELSE IF k >= 0 THEN FloatResult(pn, pd, exact)
    ELSE FloatResult(pd, pn, exact)

\* (n/d) ** k for a whole k, as a float or an int
RationalPow(n, d, k, exact, asInt) ==
    PowResult(NatPow(n, Abs(k)), NatPow(d, Abs(k)), k, exact, asInt)

\* left ** right
PyPow(a, b) ==
    IF a.t = "complex" \/ b.t = "complex" THEN
        \* only c ** 0 is kept: (1+0j)
        IF IsZero(b) THEN Ok(ComplexV("real")) ELSE Beyond
    ELSE IF b.d = 1 THEN
        \* a whole exponent
        IF IsIntegral(a) /\ IsIntegral(b) /\ b.n >= 0
        THEN RationalPow(a.n, 1, b.n, TRUE, TRUE)
        ELSE IF a.n = 0 /\ b.n < 0 THEN Raise("ZeroDivisionError")
        ELSE RationalPow(a.n, a.d, b.n, Exact(a, b) \/ b.n = 0, FALSE)
    ELSE
        \* a fractional exponent
        IF a.n < 0 THEN Ok(ComplexV("nonreal"))
        ELSE IF a.n = 0 THEN
            IF b.n < 0 THEN Raise("ZeroDivisionError")
            ELSE FloatResult(0, 1, TRUE)
        ELSE IF a.n = 1 /\ a.d = 1 THEN FloatResult(1, 1, TRUE)
        ELSE IF Exact(a, b) /\ b.d = 2 /\ SqrtFrom(a.n, 1) > 0 /\ SqrtFrom(a.d, 1) > 0
             THEN RationalPow(SqrtFrom(a.n, 1), SqrtFrom(a.d, 1), b.n, TRUE, FALSE)
        ELSE Beyond

----------------------------------------------------------------------------
(* ast.parse(expr, mode='eval'): the tokens *)

\* A token is [k, v]: k = "NUMBER" with v the value, k = "OP" with v the
\* operator or delimiter, or k = "ELLIPSIS".
NumberToken(v) == [k |-> "NUMBER", v |-> v]
OpToken(o) == [k |-> "OP", v |-> o]
EllipsisToken == [k |-> "ELLIPSIS", v |-> "..."]

\* The characters of which the model reads Python source.
SourceChars == Digits \cup {".", "(", ")", ",", "+", "-", "*", "/", "%", " ", "\t"}

\* Most digits of a literal the model reads.
MaxLiteralDigits == 9

At(s, i) == IF i >= 1 /\ i <= Len(s) THEN s[i] ELSE None

\* The first position at or after i that holds no digit.
RECURSIVE DigitsEnd(_, _)
DigitsEnd(s, i) == IF At(s, i) \in Digits THEN DigitsEnd(s, i + 1) ELSE i

\* The number the digits s[i..j-1] spell, after acc.
RECURSIVE DigitsValue(_, _, _, _)
DigitsValue(s, i, j, acc) ==
    IF i >= j THEN acc ELSE DigitsValue(s, i + 1, j, 10 * acc + DigitValue(s[i]))

RECURSIVE PowerOfTen(_)
PowerOfTen(k) == IF k = 0 THEN 1 ELSE 10 * PowerOfTen(k - 1)

\* A decimal integer literal: leading zeros only in a zero.
IntegerLiteral(s, i, j) ==
    IF j - i > MaxLiteralDigits THEN Beyond
    ELSE IF s[i] = "0" /\ j - i > 1 /\ DigitsValue(s, i, j, 0) # 0 THEN Raise("SyntaxError")
    ELSE IntResult(DigitsValue(s, i, j, 0))

\* A float literal: digits s[i..j-1], the point at j, digits s[j+1..m-1].
FloatLiteral(s, i, j, m) ==
    IF (j - i) + (m - j - 1) > MaxLiteralDigits THEN Beyond
    ELSE FloatResult(DigitsValue(s, j + 1, m, DigitsValue(s, i, j, 0)),
                     PowerOfTen(m - j - 1), TRUE)

RECURSIVE TokensFrom(_, _, _)

\* The literal lit, which ends before m, and the tokens after it.
NumberThen(s, m, acc, lit) ==
    IF lit.s # "ok" THEN lit
    ELSE TokensFrom(s, m, Append(acc, NumberToken(lit.v)))

\* A number that starts with a digit at i, its digits ending before j.
DigitsThen(s, i, j, acc) ==
    IF At(s, j) = "."
    THEN NumberThen(s, DigitsEnd(s, j + 1), acc, FloatLiteral(s, i, j, DigitsEnd(s, j + 1)))
    ELSE NumberThen(s, j, acc, IntegerLiteral(s, i, j))

TokensFrom(s, i, acc) ==
    IF i > Len(s) THEN [s |-> "ok", toks |-> acc]
    ELSE IF s[i] \notin SourceChars THEN Beyond
    ELSE IF s[i] \in {" ", "\t"} THEN TokensFrom(s, i + 1, acc)
    ELSE IF s[i] \in Digits THEN DigitsThen(s, i, DigitsEnd(s, i), acc)
    ELSE IF s[i] = "." THEN
        IF At(s, i + 1) \in Digits
        THEN NumberThen(s, DigitsEnd(s, i + 1), acc,
                        FloatLiteral(s, i, i, DigitsEnd(s, i + 1)))
        ELSE IF At(s, i + 1) = "." /\ At(s, i + 2) = "."
        THEN TokensFrom(s, i + 3, Append(acc, EllipsisToken))
        ELSE TokensFrom(s, i + 1, Append(acc, OpToken(".")))
    ELSE IF s[i] = "*" /\ At(s, i + 1) = "*"
        THEN TokensFrom(s, i + 2, Append(acc, OpToken("**")))
    ELSE IF s[i] = "/" /\ At(s, i + 1) = "/"
        THEN TokensFrom(s, i + 2, Append(acc, OpToken("//")))
    ELSE TokensFrom(s, i + 1, Append(acc, OpToken(s[i])))

\* Source that starts with a blank is an unexpected indent.
Tokenize(s) ==
    IF s # <<>> /\ s[1] \in {" ", "\t"} /\ (\A i \in 1..Len(s) : s[i] \in SourceChars)
    THEN Raise("SyntaxError")
    ELSE TokensFrom(s, 1, <<>>)

----------------------------------------------------------------------------
(* ast.parse(expr, mode='eval'): the tree *)

Expression(body) == [k |-> "Expression", body |-> body]
Constant(v) == [k |-> "Constant", value |-> v]
BinOp(op, left, right) == [k |-> "BinOp", op |-> op, left |-> left, right |-> right]
UnaryOp(op, operand) == [k |-> "UnaryOp", op |-> op, operand |-> operand]
Tuple(elts) == [k |-> "Tuple", elts |-> elts]
Call(func, args) == [k |-> "Call", func |-> func, args |-> args]
Starred(value) == [k |-> "Starred", value |-> value]
Keyword(value) == [k |-> "keyword", value |-> value]

IsOp(toks, p, o) == p <= Len(toks) /\ toks[p].k = "OP" /\ toks[p].v = o

Fail == [ok |-> FALSE]
Got(n, p) == [ok |-> TRUE, n |-> n, p |-> p]

\* The operator of a sum, a term or a factor at p, or None.
SumOp(toks, p) ==
    IF IsOp(toks, p, "+") THEN "Add" ELSE IF IsOp(toks, p, "-") THEN "Sub" ELSE None

TermOp(toks, p) ==
    IF IsOp(toks, p, "*") THEN "Mult"
    ELSE IF IsOp(toks, p, "/") THEN "Div"
    ELSE IF IsOp(toks, p, "//") THEN "FloorDiv"
    ELSE IF IsOp(toks, p, "%") THEN "Mod"
    ELSE None

FactorOp(toks, p) ==
    IF IsOp(toks, p, "+") THEN "UAdd" ELSE IF IsOp(toks, p, "-") THEN "USub" ELSE None

\* The node of two parsed operands, of one, and of a parsed argument list.
Binary(op, l, r) == IF ~r.ok THEN Fail ELSE Got(BinOp(op, l.n, r.n), r.p)
Unary(op, o) == IF ~o.ok THEN Fail ELSE Got(UnaryOp(op, o.n), o.p)
Called(func, args) == IF ~args.ok THEN Fail ELSE Got(Call(func.n, args.n), args.p)

\* An element of a tuple or an argument list: plain, after '*', after '**'.
Item(mark, n) ==
    IF mark = "**" THEN Keyword(n) ELSE IF mark = "*" THEN Starred(n) ELSE n

MarkAt(toks, p) ==
    IF IsOp(toks, p, "**") THEN "**" ELSE IF IsOp(toks, p, "*") THEN "*" ELSE None

RECURSIVE ParseSum(_, _), SumRest(_, _), ParseTerm(_, _), TermRest(_, _),
          ParseFactor(_, _), ParsePower(_, _), PowerRest(_, _), ParsePrimary(_, _),
          Trailers(_, _), Arguments(_, _, _, _), ArgumentThen(_, _, _, _),
          ParseAtom(_, _), ElementThen(_, _, _), TupleRest(_, _, _),
          TupleElementThen(_, _, _, _), ExpressionsRest(_, _, _), ExpressionThen(_, _, _)

\* sum: sum ('+' | '-') term | term
ParseSum(toks, p) == SumRest(toks, ParseTerm(toks, p))

\* after the sum l
SumRest(toks, l) ==
    IF ~l.ok THEN Fail
    ELSE IF SumOp(toks, l.p) # None
    THEN SumRest(toks, Binary(SumOp(toks, l.p), l, ParseTerm(toks, l.p + 1)))
    ELSE l

\* term: term ('*' | '/' | '//' | '%') factor | factor
ParseTerm(toks, p) == TermRest(toks, ParseFactor(toks, p))

\* after the term l
TermRest(toks, l) ==
    IF ~l.ok THEN Fail
    ELSE IF TermOp(toks, l.p) # None
    THEN TermRest(toks, Binary(TermOp(toks, l.p), l, ParseFactor(toks, l.p + 1)))
    ELSE l

\* A grammar in which a sign binds tighter than '**'.
FactorUnaryFirst(toks, p) ==
    IF FactorOp(toks, p) # None
    THEN PowerRest(toks, Unary(FactorOp(toks, p), ParsePrimary(toks, p + 1)))
    ELSE ParsePower(toks, p)

\* factor: ('+' | '-') factor | power
ParseFactor(toks, p) ==
    IF FactorOp(toks, p) # None
    THEN Unary(FactorOp(toks, p), ParseFactor(toks, p + 1))
    ELSE ParsePower(toks, p)

\* power: primary '**' factor | primary
ParsePower(toks, p) == PowerRest(toks, ParsePrimary(toks, p))

\* after the primary b
PowerRest(toks, b) ==
    IF ~b.ok THEN Fail
    ELSE IF IsOp(toks, b.p, "**") THEN Binary("Pow", b, ParseFactor(toks, b.p + 1))
    ELSE b

\* primary: primary '(' [arguments] ')' | atom
ParsePrimary(toks, p) == Trailers(toks, ParseAtom(toks, p))

\* after the primary func
Trailers(toks, func) ==
    IF ~func.ok THEN Fail
    ELSE IF IsOp(toks, func.p, "(")
    THEN Trailers(toks, Called(func, Arguments(toks, func.p + 1, <<>>, FALSE)))
    ELSE func

\* arguments, from the '(' or a ',' on: expressions and '*' expression, then
\* '**' expression, a last ',' allowed
Arguments(toks, p, acc, unpacked) ==
    IF IsOp(toks, p, ")") THEN Got(acc, p + 1)
    ELSE IF unpacked /\ MarkAt(toks, p) # "**" THEN Fail
    ELSE ArgumentThen(toks, acc, MarkAt(toks, p),
                      ParseSum(toks, IF MarkAt(toks, p) # None THEN p + 1 ELSE p))

\* after the argument e
ArgumentThen(toks, acc, mark, e) ==
    IF ~e.ok THEN Fail
    ELSE IF IsOp(toks, e.p, ",")
    THEN Arguments(toks, e.p + 1, Append(acc, Item(mark, e.n)), mark = "**")
    ELSE IF IsOp(toks, e.p, ")") THEN Got(Append(acc, Item(mark, e.n)), e.p + 1)
    ELSE Fail

\* atom: NUMBER | '...' | '(' ')' | '(' expression ')' | a tuple in parentheses
ParseAtom(toks, p) ==
    IF p > Len(toks) THEN Fail
    ELSE IF toks[p].k = "NUMBER" THEN Got(Constant(toks[p].v), p + 1)
    ELSE IF toks[p].k = "ELLIPSIS" THEN Got(Constant(OtherV("ellipsis")), p + 1)
    ELSE IF IsOp(toks, p, "(") THEN
        IF IsOp(toks, p + 1, ")") THEN Got(Tuple(<<>>), p + 2)
        ELSE IF IsOp(toks, p + 1, "*") THEN ElementThen(toks, "*", ParseSum(toks, p + 2))
        ELSE ElementThen(toks, None, ParseSum(toks, p + 1))
    ELSE Fail

\* after the first expression e in parentheses
ElementThen(toks, mark, e) ==
    IF ~e.ok THEN Fail
    ELSE IF IsOp(toks, e.p, ",") THEN TupleRest(toks, e.p + 1, <<Item(mark, e.n)>>)
    ELSE IF IsOp(toks, e.p, ")") /\ mark = None THEN Got(e.n, e.p + 1)
    ELSE Fail

\* the elements of a tuple in parentheses, from a ',' on
TupleRest(toks, p, acc) ==
    IF IsOp(toks, p, ")") THEN Got(Tuple(acc), p + 1)
    ELSE IF IsOp(toks, p, "*") THEN TupleElementThen(toks, acc, "*", ParseSum(toks, p + 1))
    ELSE TupleElementThen(toks, acc, None, ParseSum(toks, p))

\* after the element e
TupleElementThen(toks, acc, mark, e) ==
    IF ~e.ok THEN Fail
    ELSE IF IsOp(toks, e.p, ",") THEN TupleRest(toks, e.p + 1, Append(acc, Item(mark, e.n)))
    ELSE IF IsOp(toks, e.p, ")") THEN Got(Tuple(Append(acc, Item(mark, e.n))), e.p + 1)
    ELSE Fail

\* expressions: expression (',' expression)+ [','] | expression ',' | expression,
\* from a ',' on
ExpressionsRest(toks, p, acc) ==
    IF p > Len(toks) THEN Got(Tuple(acc), p)
    ELSE ExpressionThen(toks, acc, ParseSum(toks, p))

\* after the expression e
ExpressionThen(toks, acc, e) ==
    IF ~e.ok THEN Fail
    ELSE IF IsOp(toks, e.p, ",") THEN ExpressionsRest(toks, e.p + 1, Append(acc, e.n))
    ELSE IF e.p > Len(toks) THEN
        IF acc = <<>> THEN e ELSE Got(Tuple(Append(acc, e.n)), e.p)
    ELSE Fail

\* eval: expressions NEWLINE* ENDMARKER
ParseExpressions(toks) == ExpressionThen(toks, <<>>, ParseSum(toks, 1))

\* The tree of the tokens lexed, SyntaxError, or source the model does not read.
TreeOf(lexed, e) ==
    IF lexed.s # "ok" THEN lexed
    ELSE IF e.ok THEN [s |-> "ok", node |-> Expression(e.n)]
    ELSE Raise("SyntaxError")

Parsed(lexed) ==
    TreeOf(lexed, IF lexed.s = "ok" THEN ParseExpressions(lexed.toks) ELSE Fail)

\* ast.parse(expr, mode='eval')
ast_parse(expr) == Parsed(Tokenize(expr))

----------------------------------------------------------------------------
(* _safe_eval_expr and its walk _eval *)

\* How an evaluation ends: [s, v, ops] returned, [s, e, ops] raised, or Beyond.
\* ops lists, in order, the operators whose Python operation was carried out.
Returned(v, ops) == [s |-> "ok", v |-> v, ops |-> ops]
Raised(e, ops) == [s |-> "raise", e |-> e, ops |-> ops]

allowed_binops == {"Add", "Sub", "Mult", "Div", "Mod", "Pow", "FloorDiv"}

allowed_unaryops == {"UAdd", "USub"}

\* isinstance(n, ast.Num), CPython 3.8 to 3.13: a Constant whose value is an
\* int, a float or a complex, and no bool.
IsNum(n) == n.k = "Constant" /\ n.value.t \in {"int", "float", "complex"}

\* isinstance(n.value, (int, float)): a bool is an int.
IsIntOrFloat(v) == v.t \in {"int", "bool", "float"}

ApplyBinOp(op, left, right) ==
    CASE op = "Add" -> PyAdd(left, right)
      [] op = "Sub" -> PySub(left, right)
      [] op = "Mult" -> PyMult(left, right)
      [] op = "Div" -> PyDiv(left, right)
      [] op = "Mod" -> PyMod(left, right)
      [] op = "Pow" -> PyPow(left, right)
      [] op = "FloorDiv" -> PyFloorDiv(left, right)

ApplyUnaryOp(op, operand) ==
    IF op = "UAdd" THEN PyPos(operand) ELSE PyNeg(operand)

\* The operation of a node on evaluated operands, after the operations ops.
Finish(res, ops) ==
    IF res.s = "ok" THEN Returned(res.v, ops)
    ELSE IF res.s = "raise" THEN Raised(res.e, ops)
    ELSE Beyond

\* allowed_binops[type(n.op)](_eval(n.left), _eval(n.right)): the left operand
\* is evaluated first, the right one only when that returned.
EvalBinOp(op, left, right) ==
    IF left.s # "ok" THEN left
    ELSE IF right.s = "beyond" THEN Beyond
    ELSE IF right.s = "raise" THEN Raised(right.e, left.ops \o right.ops)
    ELSE Finish(ApplyBinOp(op, left.v, right.v), left.ops \o right.ops \o <<op>>)

\* +operand, -operand
EvalUnaryOp(op, operand) ==
    IF operand.s # "ok" THEN operand
    ELSE Finish(ApplyUnaryOp(op, operand.v), Append(operand.ops, op))

RECURSIVE _eval(_)
_eval(n) ==
    IF n.k = "Expression" THEN _eval(n.body)
    ELSE IF IsNum(n) THEN Returned(n.value, <<>>)
    ELSE IF n.k = "Constant" THEN
        IF IsIntOrFloat(n.value) THEN Returned(n.value, <<>>)
        ELSE Raised("ValueError", <<>>)
    ELSE IF n.k = "BinOp" /\ n.op \in allowed_binops
        THEN EvalBinOp(n.op, _eval(n.left), _eval(n.right))
    ELSE IF n.k = "UnaryOp" /\ n.op \in allowed_unaryops
        THEN EvalUnaryOp(n.op, _eval(n.operand))
    ELSE IF n.k = "Tuple" THEN Raised("ValueError", <<>>)
    ELSE Raised("ValueError", <<>>)

\* return _eval(node), of the node ast.parse gave
EvalParsed(parsed) ==
    IF parsed.s = "beyond" THEN Beyond
    ELSE IF parsed.s = "raise" THEN Raised(parsed.e, <<>>)
    ELSE _eval(parsed.node)

_safe_eval_expr(expr) == EvalParsed(ast_parse(NormalizeUnicode(expr)))

----------------------------------------------------------------------------
(* handle_text *)

\* text.strip()
RECURSIVE LStrip(_)
LStrip(s) == IF s # <<>> /\ Head(s) \in Whitespace THEN LStrip(Tail(s)) ELSE s

RECURSIVE RStrip(_)
RStrip(s) ==
    IF s # <<>> /\ s[Len(s)] \in Whitespace THEN RStrip(SubSeq(s, 1, Len(s) - 1)) ELSE s

Strip(s) == RStrip(LStrip(s))

\* Decimal places of round(result, 5), and the units of such a value.
RoundPlaces == 5
RoundUnits == PowerOfTen(RoundPlaces)

\* round(result, 5) of a float n/d that is no whole number: a count of
\* hundred-thousandths over RoundUnits, the nearest one, the even one of two
\* equally near.  Which of the two an inexact double is nearer to is not
\* decided.
Round5(v) ==
    LET q == Floor(v.n, v.d)
        scaled == (v.n - q * v.d) * RoundUnits
        f == scaled \div v.d
        rem == scaled % v.d
        up == 2 * rem > v.d \/ (2 * rem = v.d /\ f % 2 = 1)
    IN  IF 2 * rem = v.d /\ ~v.x THEN Beyond
        ELSE Ok(FloatV(q * RoundUnits + f + (IF up THEN 1 ELSE 0), RoundUnits,
                       v.x /\ rem = 0))

\* if isinstance(result, float): int(result) if result.is_integer()
\*                               else round(result, 5)
Present(v) ==
    IF v.t = "float" THEN
        IF v.d = 1 THEN Ok(IntV(v.n)) ELSE Round5(v)
    ELSE Ok(v)

FallbackReply == [kind |-> "fallback", body |-> "Please send me an image containing a QR code to decode."]
ErrorReply == [kind |-> "error", body |-> "Sorry, I couldn't evaluate that expression. Make sure it's basic arithmetic only."]
ResultReply(text, value) == [kind |-> "result", expr |-> text, value |-> value]

NoLog == [level |-> "none"]
ErrorLog(e) == [level |-> "error", e |-> e]

\* (update.message.text or '').strip()
TextOf(m) == Strip(IF m.present THEN m.text ELSE <<>>)

NotRun == [s |-> "none"]

\* A reply that shows the string the evaluator was given.
ReplyToNormalized(text, result) ==
    IF result.s = "raise" THEN ErrorReply
    ELSE ResultReply(NormalizeCaretAndX(text), Present(result.v).v)

\* if isinstance(result, float): ... ; reply_text(f"{text} = {result}")
ReplyTo(text, result) ==
    IF result.s = "raise" THEN ErrorReply
    ELSE ResultReply(text, Present(result.v).v)

\* The replies to text after the evaluator ended with result.
Replied(text, result) ==
    /\ result.s # "beyond"
    /\ result.s = "ok" => Present(result.v).s = "ok"
    /\ calls' = calls + 1
    /\ outcome' = result
    /\ replies' = Append(replies, ReplyTo(text, result))
    /\ logged' = IF result.s = "raise" THEN ErrorLog(result.e) ELSE NoLog

\* handle_text.  Its step is left out on an expression whose value the model
\* does not represent.
HandleText ==
    /\ pc = "call"
    /\ \E text \in {TextOf(msg)} :
        IF looks_like_math(text)
        THEN Replied(text, _safe_eval_expr(NormalizeCaretAndX(text)))
        ELSE /\ replies' = Append(replies, FallbackReply)
             /\ calls' = calls
             /\ outcome' = outcome
             /\ logged' = NoLog
    /\ pc' = "return"
    /\ UNCHANGED <<msg, arg, verdict, raw, cur, todo, node>>

----------------------------------------------------------------------------
(* The handler on its messages *)

\* Longest message made of HandlerAlphabet.
MaxLen == 4

HandlerAlphabet == {"0", "2", ".", "(", ")", "-", "/", "^", "x", " "}

\* The expressions run_tests lists (src/test_calculator.py).
TestCases ==
    {<<"2", "+", "2">>,
     <<"5", "*", "1", "0">>,
     <<"1", "2", "*", "(", "3", "+", "4", ")", "/", "2">>,
     <<"5", "^", "3">>,
     <<"1", "0", " ", DivisionSign, " ", "4">>,
     <<"1", "0", "0", " ", "-", " ", "2", "5", " ", "*", " ", "2">>,
     <<"(", "1", "0", "+", "5", ")", "*", "2">>,
     <<"2", "*", "*", "8">>,
     <<"1", "7", " ", "%", " ", "5">>,
     <<"2", "0", " ", "/", "/", " ", "3">>,
     <<"-", "5", " ", "+", " ", "1", "0">>,
     <<"3", ".", "1", "4", " ", "*", " ", "2">>,
     <<"i", "n", "v", "a", "l", "i", "d", " ", "t", "e", "x", "t">>,
     <<"h", "e", "l", "l", "o", " ", "w", "o", "r", "l", "d">>}

\* Longer expressions: zero divisors, unary minus beside the other operators,
\* quotients to round, a negative base under a fractional exponent, and
\* tuples, calls and an ellipsis beside arithmetic.
EdgeCases ==
    {<<"1", "0", "/", "0">>,
     <<"2", "%", "0">>,
     <<"2", ".", "5", "%", "0">>,
     <<"-", "7", "/", "/", "2">>,
     <<"-", "7", "%", "2">>,
     <<"2", "x", "3", "^", "2">>,
     <<"-", "3", "^", "2">>,
     <<"-", "2", "^", "4">>,
     <<"1", "/", "3">>,
     <<"1", "/", "6", "4">>,
     <<"(", "-", "8", ")", "^", ".", "5">>,
     <<"(", "-", "8", ")", "^", ".", "5", "%", "2">>,
     <<"(", "-", "8", ")", "^", ".", "5", "/", "/", "2">>,
     <<"(", "-", "1", ")", "^", ".", "5", "%", "0">>,
     <<"(", "-", "1", ")", "^", ".", "5", "/", "/", "0">>,
     <<"(", "-", "1", ")", "^", ".", "5", "/", "0">>,
     <<"(", "-", "1", ")", "^", ".", "5", "x", "0">>,
     <<"1", "/", "0", "+", "(", "1", ",", "2", ")">>,
     <<"(", "1", ",", "2", ")", "+", "1", "/", "0">>,
     <<"2", "+", "2", "+", "(", "1", ",", "2", ")">>,
     <<"2", "+", "2", "(", "2", ")">>,
     <<"2", "-", ".", ".", ".">>}

\* A text message, and an update that carries no text.
Message(text) == [present |-> TRUE, text |-> text]
NoMessage == [present |-> FALSE, text |-> <<>>]

HandlerIdle == msg = NoMessage /\ replies = <<>> /\ logged = NoLog /\ calls = 0
ClassifierIdle == arg = <<>> /\ verdict = FALSE
SubstitutionIdle == raw = <<>> /\ cur = <<>> /\ todo = {}
EvaluatorIdle == node = Expression(Constant(IntV(0))) /\ outcome = NotRun

Init ==
    /\ \/ \E n \in 0..MaxLen : \E text \in Strings(HandlerAlphabet, n) : msg = Message(text)
       \/ \E text \in TestCases \cup EdgeCases : msg = Message(text)
       \/ msg = NoMessage
    /\ replies = <<>>
    /\ logged = NoLog
    /\ calls = 0
    /\ ClassifierIdle
    /\ SubstitutionIdle
    /\ EvaluatorIdle
    /\ pc = "call"

Next == HandleText

Spec == Init /\ [][Next]_vars

----------------------------------------------------------------------------
(* The classifier on its arguments *)

\* Longest argument made of ClassifierAlphabet.
MaxArgLen == 3

ClassifierAlphabet ==
    {"7", " ", "\n", ".", "(", ")", ",", "+", "-", "*", "/", "%", "^", "x", "X",
     MultiplicationSign, DivisionSign, "a", ";", "[", "_", "'"}

Classify ==
    /\ pc = "call"
    /\ verdict' = looks_like_math(arg)
    /\ pc' = "return"
    /\ UNCHANGED <<msg, replies, logged, calls, arg, raw, cur, todo, node, outcome>>

InitClassify ==
    /\ \E n \in 0..MaxArgLen : arg \in Strings(ClassifierAlphabet, n)
    /\ verdict = FALSE
    /\ HandlerIdle
    /\ SubstitutionIdle
    /\ EvaluatorIdle
    /\ pc = "call"

NextClassify == Classify

SpecClassify == InitClassify /\ [][NextClassify]_vars

----------------------------------------------------------------------------
(* The substitutions in any order *)

\* Longest string made of SubstitutionAlphabet.
MaxRawLen == 3

SubstitutionAlphabet ==
    {"^", "x", "X", MultiplicationSign, DivisionSign, EnDash, MinusSign, "*", "2"}

\* One str.replace call, of those not yet made.
Substitute(sub) ==
    /\ sub \in todo
    /\ cur' = Apply(sub, cur)
    /\ todo' = todo \ {sub}
    /\ pc' = IF todo' = {} THEN "return" ELSE "call"
    /\ UNCHANGED <<msg, replies, logged, calls, arg, verdict, raw, node, outcome>>

InitSubstitute ==
    /\ \E n \in 0..MaxRawLen : raw \in Strings(SubstitutionAlphabet, n)
    /\ cur = raw
    /\ todo = Substitutions
    /\ HandlerIdle
    /\ ClassifierIdle
    /\ EvaluatorIdle
    /\ pc = "call"

NextSubstitute == \E sub \in Substitutions : Substitute(sub)

SpecSubstitute == InitSubstitute /\ [][NextSubstitute]_vars

----------------------------------------------------------------------------
(* The walk on trees of any source *)

Name == [k |-> "Name"]
Attribute(value) == [k |-> "Attribute", value |-> value]
Subscript(value, slice) == [k |-> "Subscript", value |-> value, slice |-> slice]
Compare(left, right) == [k |-> "Compare", left |-> left, right |-> right]

Leaves ==
    {Constant(IntV(0)), Constant(IntV(2)), Constant(FloatV(1, 2, TRUE)),
     Constant(BoolV(TRUE)), Constant(ComplexV("nonreal")),
     Constant(OtherV("str")), Constant(OtherV("bytes")), Constant(OtherV("NoneType")),
     Constant(OtherV("ellipsis")), Name, Tuple(<<>>)}

TreeBinOps == {"Add", "Div", "Mod", "Pow", "BitXor"}
TreeUnaryOps == {"USub", "UAdd", "Invert", "Not"}

\* The other operand of a node over a tree.
Operands == {Constant(IntV(0)), Constant(IntV(2)), Constant(BoolV(TRUE))}

\* The nodes over the trees T.
Grown(T) ==
    T \cup {BinOp(op, l, r) : op \in TreeBinOps, l \in T, r \in Operands}
      \cup {BinOp(op, l, r) : op \in TreeBinOps, l \in Operands, r \in T}
      \cup {UnaryOp(op, o) : op \in TreeUnaryOps, o \in T}
      \cup {Call(Name, <<a>>) : a \in Leaves}
      \cup {Attribute(v) : v \in Leaves}
      \cup {Subscript(Name, i) : i \in Leaves}
      \cup {Compare(l, Constant(IntV(2))) : l \in Leaves}
      \cup {Tuple(<<a, Constant(IntV(2))>>) : a \in Leaves}

\* Deepest nesting of the trees.
MaxDepth == 2

RECURSIVE Trees(_)
Trees(depth) == IF depth = 0 THEN Leaves ELSE Grown(Trees(depth - 1))

\* return _eval(node), after ast.parse returned node
SafeEval ==
    /\ pc = "call"
    /\ _eval(node).s # "beyond"
    /\ outcome' = _eval(node)
    /\ pc' = "return"
    /\ UNCHANGED <<msg, replies, logged, calls, arg, verdict, raw, cur, todo, node>>

InitEval ==
    /\ node \in {Expression(t) : t \in Trees(MaxDepth)}
    /\ outcome = NotRun
    /\ HandlerIdle
    /\ ClassifierIdle
    /\ SubstitutionIdle
    /\ pc = "call"

NextEval == SafeEval

SpecEval == InitEval /\ [][NextEval]_vars

----------------------------------------------------------------------------
(* The claims *)

\* The trimmed text of the message, the string ast.parse is given for it, its
\* tokens and its tree.
Text == TextOf(msg)
Source == Normalize(Text)
Lexed == Tokenize(Source)
Tree == ast_parse(Source)

\* The characters C2 allows and the operator glyphs it names.
AllowedCharacters ==
    Digits \cup Whitespace \cup {".", "(", ")", ","}
           \cup {"+", "-", "*", "/", "%", "^", "x", "X", MultiplicationSign, DivisionSign}
NamedGlyphs ==
    {"+", "-", "*", MultiplicationSign, "x", "X", "/", DivisionSign, "%", "^"}

\* C2: looks_like_math(text) returns true if and only if text is non-empty,
\* every character of it is a digit, whitespace, '.', '(', ')', ',' or one of
\* the glyphs + - * / % ^ x X U+00D7 U+00F7, and at least one of these glyphs
\* occurs in it.
C2_ClassifierAcceptsExactly ==
    pc = "return" =>
        (verdict <=> /\ arg # <<>>
                     /\ \A i \in 1..Len(arg) : arg[i] \in AllowedCharacters
                     /\ \E i \in 1..Len(arg) : arg[i] \in NamedGlyphs)

\* An accepted string whose only operator glyph is the letter x.
C2_Witness ==
    /\ pc = "return"
    /\ verdict
    /\ Contains(arg, "x")
    /\ \A i \in 1..Len(arg) : arg[i] \in Digits \cup {"x"}
    /\ \E i \in 1..Len(arg) : arg[i] \in Digits

\* C8: the seven substitutions applied in any order give the string the code's
\* order gives, and that string is left unchanged by normalizing it again.
C8_NormalizationOrderIndependent ==
    todo = {} => /\ cur = Normalize(raw)
                 /\ Normalize(cur) = cur
                 /\ \A sub \in Substitutions : Apply(sub, cur) = cur

\* All substitutions made on a string that holds a glyph of the handler's
\* substitutions and one of the evaluator's.
C8_Witness ==
    /\ todo = {}
    /\ \E i \in 1..Len(raw) : raw[i] \in {"^", "x", "X"}
    /\ \E i \in 1..Len(raw) : raw[i] \in {MultiplicationSign, DivisionSign, EnDash, MinusSign}
    /\ cur # raw

\* C6: handle_text sends exactly one reply: the fallback, without a call of
\* the evaluator, when the classifier rejects the trimmed text; the trimmed
\* text as sent and the value when the evaluator returns; the one fixed error
\* message when the evaluator raises, whatever it raises.
C6_OneOfThreeResponses ==
    pc = "return" =>
        /\ Len(replies) = 1
        /\ ~looks_like_math(Text) =>
               replies[1] = FallbackReply /\ calls = 0 /\ outcome = NotRun
        /\ looks_like_math(Text) => calls = 1 /\ outcome.s \in {"ok", "raise"}
        /\ looks_like_math(Text) /\ outcome.s = "ok" =>
               replies[1].kind = "result" /\ replies[1].expr = Text
        /\ looks_like_math(Text) /\ outcome.s = "raise" => replies[1] = ErrorReply

\* A result sent for a text that was trimmed and that normalization changes.
C6_Witness ==
    /\ pc = "return"
    /\ replies # <<>>
    /\ replies[1].kind = "result"
    /\ replies[1].expr # msg.text
    /\ replies[1].expr # NormalizeCaretAndX(replies[1].expr)

\* The tokens '-' a '**' n of integers a > 0 and even n > 0.
IsInt(toks, p) == toks[p].k = "NUMBER" /\ toks[p].v.t = "int"
NegatedPower(toks) ==
    /\ Len(toks) = 4
    /\ IsOp(toks, 1, "-") /\ IsInt(toks, 2) /\ IsOp(toks, 3, "**") /\ IsInt(toks, 4)
    /\ toks[2].v.n > 0
    /\ toks[4].v.n > 0 /\ toks[4].v.n % 2 = 0

\* The shapes a op b op c of numbers, and '-' a op b.
Infix(toks) ==
    /\ Len(toks) = 5
    /\ toks[1].k = "NUMBER" /\ toks[3].k = "NUMBER" /\ toks[5].k = "NUMBER"
    /\ toks[2].k = "OP" /\ toks[4].k = "OP"
NegatedTerm(toks) ==
    /\ Len(toks) = 4
    /\ IsOp(toks, 1, "-") /\ toks[2].k = "NUMBER" /\ toks[4].k = "NUMBER"
    /\ TermOp(toks, 3) # None

\* C5, as amended: '**' binds tighter than a sign on its left, a sign tighter
\* than * / % //, and these tighter than + and -; so "-a**n", for integers
\* a > 0 and even n > 0, is -(a**n).
C5_PowerBindsTighterThanSign ==
    pc = "return" /\ Lexed.s = "ok" =>
        /\ NegatedPower(Lexed.toks) =>
               /\ Tree.node = Expression(UnaryOp("USub",
                       BinOp("Pow", Constant(Lexed.toks[2].v), Constant(Lexed.toks[4].v))))
               /\ outcome = Returned(IntV(-(Lexed.toks[2].v.n ^ Lexed.toks[4].v.n)),
                                     <<"Pow", "USub">>)
               /\ replies = <<ResultReply(Text,
                                  IntV(-(Lexed.toks[2].v.n ^ Lexed.toks[4].v.n)))>>
        /\ NegatedTerm(Lexed.toks) =>
               Tree.node = Expression(BinOp(TermOp(Lexed.toks, 3),
                               UnaryOp("USub", Constant(Lexed.toks[2].v)),
                               Constant(Lexed.toks[4].v)))
        /\ Infix(Lexed.toks) /\ TermOp(Lexed.toks, 2) # None /\ IsOp(Lexed.toks, 4, "**") =>
               Tree.node = Expression(BinOp(TermOp(Lexed.toks, 2), Constant(Lexed.toks[1].v),
                               BinOp("Pow", Constant(Lexed.toks[3].v), Constant(Lexed.toks[5].v))))
        /\ Infix(Lexed.toks) /\ SumOp(Lexed.toks, 2) # None /\ TermOp(Lexed.toks, 4) # None =>
               Tree.node = Expression(BinOp(SumOp(Lexed.toks, 2), Constant(Lexed.toks[1].v),
                               BinOp(TermOp(Lexed.toks, 4), Constant(Lexed.toks[3].v),
                                     Constant(Lexed.toks[5].v))))

\* "-a^n" evaluated and answered.
C5_Witness ==
    /\ pc = "return"
    /\ Lexed.s = "ok"
    /\ NegatedPower(Lexed.toks)
    /\ outcome.s = "ok"
    /\ replies # <<>>
    /\ replies[1].kind = "result"

\* C5, as stated: "-a**n", for integers a > 0 and even n > 0, evaluates to
\* (-a)**n, the sign applied to the base before the exponentiation.
C5_SignBindsTighterThanPower ==
    pc = "return" /\ Lexed.s = "ok" /\ NegatedPower(Lexed.toks) =>
        /\ outcome.s = "ok"
        /\ outcome.v = IntV((-Lexed.toks[2].v.n) ^ Lexed.toks[4].v.n)

\* The whitelist of the claims: numeric literals, binary nodes of seven
\* operators, unary nodes of two.
NumericLiterals == {"int", "float", "complex"}
WhitelistBinOps == {"Add", "Sub", "Mult", "Div", "Mod", "Pow", "FloorDiv"}
WhitelistUnaryOps == {"UAdd", "USub"}

\* Whether the tree n holds, at any depth, a node outside the whitelist.
RECURSIVE HasUnlistedNode(_)
HasUnlistedNode(n) ==
    IF n.k = "Expression" THEN HasUnlistedNode(n.body)
    ELSE IF n.k = "Constant" THEN n.value.t \notin NumericLiterals
    ELSE IF n.k = "BinOp" /\ n.op \in WhitelistBinOps
        THEN HasUnlistedNode(n.left) \/ HasUnlistedNode(n.right)
    ELSE IF n.k = "UnaryOp" /\ n.op \in WhitelistUnaryOps
        THEN HasUnlistedNode(n.operand)
    ELSE TRUE

\* The nodes directly under n.
ChildrenOf(n) ==
    IF n.k = "Expression" THEN {n.body}
    ELSE IF n.k \in {"BinOp", "Compare"} THEN {n.left, n.right}
    ELSE IF n.k = "UnaryOp" THEN {n.operand}
    ELSE IF n.k = "Tuple" THEN {n.elts[i] : i \in 1..Len(n.elts)}
    ELSE IF n.k = "Call" THEN {n.func} \cup {n.args[i] : i \in 1..Len(n.args)}
    ELSE IF n.k \in {"Attribute", "Starred", "keyword"} THEN {n.value}
    ELSE IF n.k = "Subscript" THEN {n.value, n.slice}
    ELSE {}

\* Whether the tree n holds a constant leaf that is no integer and no float.
RECURSIVE HasOtherConstant(_)
HasOtherConstant(n) ==
    IF n.k = "Constant" THEN n.value.t \notin {"int", "float"}
    ELSE \E child \in ChildrenOf(n) : HasOtherConstant(child)

\* C1: when the tree holds, at any depth, a node outside the whitelist, the
\* evaluation fails and returns no value, and nothing but whitelisted
\* arithmetic was carried out.
C1_FailClosedOverTheTree ==
    pc = "return" /\ HasUnlistedNode(node) =>
        /\ outcome.s = "raise"
        /\ \A i \in 1..Len(outcome.ops) :
               outcome.ops[i] \in WhitelistBinOps \cup WhitelistUnaryOps

\* C10: a constant leaf that is no integer and no float makes the evaluation
\* fail with the unsupported-construct error (ValueError).
C10_OnlyIntAndFloatLeaves ==
    pc = "return" /\ HasOtherConstant(node) =>
        outcome.s = "raise" /\ outcome.e = "ValueError"

\* C3: an accepted text evaluates to an integer or a float, or fails with
\* SyntaxError, the walk's ValueError or the ZeroDivisionError of a zero divisor.
C3_NumberOrDefinedError ==
    pc = "return" /\ looks_like_math(Text) =>
        \/ outcome.s = "ok" /\ outcome.v.t \in {"int", "float"}
        \/ outcome.s = "raise"
               /\ outcome.e \in {"SyntaxError", "ValueError", "ZeroDivisionError"}

\* Whether the walk of n comes to a / % or // node whose right operand
\* evaluated to the integer 0 or the float 0.0.
RECURSIVE ReachesZeroDivisor(_)
ReachesZeroDivisor(n) ==
    IF n.k = "Expression" THEN ReachesZeroDivisor(n.body)
    ELSE IF n.k = "UnaryOp" /\ n.op \in allowed_unaryops THEN ReachesZeroDivisor(n.operand)
    ELSE IF n.k = "BinOp" /\ n.op \in allowed_binops THEN
        \/ ReachesZeroDivisor(n.left)
        \/ /\ _eval(n.left).s = "ok"
           /\ \/ ReachesZeroDivisor(n.right)
              \/ /\ n.op \in {"Div", "Mod", "FloorDiv"}
                 /\ _eval(n.right).s = "ok"
                 /\ _eval(n.right).v.t \in {"int", "float"}
                 /\ _eval(n.right).v.n = 0
    ELSE FALSE

\* C4: when the walk comes to a / % or // node whose right operand evaluated
\* to zero, the evaluation fails with ZeroDivisionError, whatever the left
\* operand.
C4_ZeroDivisorIsArithmeticError ==
    pc = "return" /\ looks_like_math(Text) /\ Tree.s = "ok" /\ ReachesZeroDivisor(Tree.node) =>
        outcome.s = "raise" /\ outcome.e = "ZeroDivisionError"

\* C7: a computed value that is a whole number is shown as an integer, any
\* other value as a float of five decimal places, the nearest to it.
C7_IntegerOrFiveDecimals ==
    pc = "return" /\ replies # <<>> /\ replies[1].kind = "result" =>
        IF outcome.v.t \in {"int", "float"} /\ outcome.v.d = 1
        THEN replies[1].value = IntV(outcome.v.n)
        ELSE /\ replies[1].value.t = "float"
             /\ replies[1].value.d = RoundUnits
             /\ 2 * Abs((replies[1].value.n - Floor(outcome.v.n, outcome.v.d) * RoundUnits)
                            * outcome.v.d
                        - (outcome.v.n - Floor(outcome.v.n, outcome.v.d) * outcome.v.d)
                            * RoundUnits)
                    <= outcome.v.d

\* C9: when the tree holds a node outside the whitelist, the evaluation fails
\* with the unsupported-construct error before any arithmetic is carried out.
C9_RejectionPrecedesEvaluation ==
    pc = "return" /\ looks_like_math(Text) /\ Tree.s = "ok" /\ HasUnlistedNode(Tree.node) =>
        outcome = Raised("ValueError", <<>>)

====
